---- MODULE Spec2Model ----
(***************************************************************************)
(* Model of the legacy-database extraction subsystem of the converter:     *)
(* RobustAccessReader (src/src/readers/robust_access_reader.py) and the    *)
(* year-partitioned batch conversion of FileConverter                      *)
(* (src/src/core/converter.py).                                            *)
(*                                                                         *)
(* The host (which tools are installed, the source file and its tables) is *)
(* fixed per behaviour; what an external tool does on one invocation (exit *)
(* status, timeout, unparseable output) is drawn per call.                 *)
(***************************************************************************)
EXTENDS Integers, Sequences, FiniteSets, TLC

VARIABLES
    env,                      \* host: system name and which tools/libraries are present
    file,                     \* the source file on disk
    access_support_checked,   \* self._access_support_checked
    access_supported,         \* self._access_supported
    reports,                  \* reports returned by check_access_support, in call order
    pc,                       \* position of the current read call
    tools,                    \* what the external tools do during the current read call
    table_name,               \* read's table_name argument
    idx,                      \* position of the for loop over methods (1-based)
    last_error,               \* read's local last_error
    attempts,                 \* strategies invoked by the current read call, in order
    failure_log,              \* failures recorded by the except branch of the loop
    result,                   \* what the last read call returned or raised
    tempFiles,                \* temporary export files that exist on disk
    mkstemps,                 \* number of temporary files created so far
    reads,                    \* number of read calls started
    tables_result,            \* what the last get_table_names call returned or raised
    listing_attempts,         \* listing mechanisms consulted by that call, in order
    listings,                 \* number of get_table_names calls made
    naming_config,            \* the naming_config argument (a dict; empty when None or {})
    output_format,            \* the output_format argument
    clock,                    \* the wall clock, in seconds
    names,                    \* calls of _generate_year_filename made so far, with their results
    input_file,               \* the file at input_path: whether it exists, and its suffix
    year_summary,             \* what get_year_summary answers for the file
    parallel,                 \* the parallel argument
    max_workers,              \* the size of the thread pool
    batch_pc,                 \* position of the convert_access_by_year call
    jobs,                     \* the local list jobs
    tasks,                    \* one process_single_year call per job: its position and locals
    conversions_by_year,      \* result['conversions_by_year']
    disk,                     \* artifacts in the output directory: file name -> size
    batch_result,             \* what convert_access_by_year returned or raised
    mkdirs,                   \* number of times the output directory was created
    summary_calls,            \* number of get_year_summary calls made
    year_rows,                \* the year column of a table: one cell per row
    year_result,              \* what get_year_summary last reported for the table
    partitions                \* what read_by_year last answered, per requested year

vars == <<env, file, access_support_checked, access_supported, reports, pc,
          tools, table_name, idx, last_error, attempts, failure_log, result,
          tempFiles, mkstemps, reads, tables_result, listing_attempts, listings,
          naming_config, output_format, clock, names,
          input_file, year_summary, parallel, max_workers, batch_pc, jobs, tasks,
          conversions_by_year, disk, batch_result, mkdirs, summary_calls,
          year_rows, year_result, partitions>>

readVars == <<pc, tools, table_name, idx, last_error, attempts, failure_log, result,
              tempFiles, mkstemps, reads>>

supportVars == <<access_support_checked, access_supported, reports>>

listingVars == <<tables_result, listing_attempts, listings>>

namingVars == <<naming_config, output_format, clock, names>>

batchVars == <<input_file, year_summary, parallel, max_workers, batch_pc, jobs, tasks,
               conversions_by_year, disk, batch_result, mkdirs, summary_calls>>

prepVars == <<mkdirs, summary_calls>>

yearVars == <<year_rows, year_result, partitions>>

converterVars == <<namingVars, batchVars, yearVars>>

----------------------------------------------------------------------------
(* Bounds of the model *)

MaxRows == 1

MaxReads == 1

MaxChecks == 3

MaxListings == 1

MaxNameCalls == 2

MaxClock == 1

MaxTableRows == 3

CpuCount == 2

----------------------------------------------------------------------------
(* Values *)

None == "None"

TableNames == {"A", "B"}

Range(s) == {s[i] : i \in 1..Len(s)}

Systems == {"linux", "darwin", "windows"}

\* `driver`: an Access ODBC driver is registered (it is only seen through pyodbc).
Envs == {e \in [system : Systems, mdbtools : BOOLEAN, pyodbc : BOOLEAN, driver : BOOLEAN, sqlalchemy : BOOLEAN] : e.driver => e.pyodbc}

TableLists == {<<>>, <<"A">>, <<"A", "B">>}

ValidFiles == UNION {[exists : {TRUE}, size : {1}, tables : {ts}, rows : [Range(ts) -> 0..MaxRows]] : ts \in TableLists}

MissingFile == [exists |-> FALSE, size |-> 0, tables |-> <<>>, rows |-> <<>>]

EmptyFile == [exists |-> TRUE, size |-> 0, tables |-> <<>>, rows |-> <<>>]

Files == {MissingFile, EmptyFile} \cup ValidFiles

\* What the external tools do on one invocation.
Oracles == [list : {"ok", "fail", "timeout"}, export : {"ok", "fail", "timeout"}, parse : {"ok", "fail"}, connect : {"ok", "fail"}, engine : {"ok", "fail"}]

AllOk == [list |-> "ok", export |-> "ok", parse |-> "ok", connect |-> "ok", engine |-> "ok"]

\* One oracle per distinguishable run of the tools: of the mdb-tools steps, which
\* run one after the other, at most the first failing one is named.
ReadOracles == {o \in Oracles : (o.list # "ok" => o.export = "ok") /\ ((o.list # "ok" \/ o.export # "ok") => o.parse = "ok")}

\* An exception: its class, its message, and the table names the message lists.
\* `cause` is the message of the error it embeds, `hint` whether it advises converting by hand.
ErrFull(type, what, mentions, cause, hint) == [type |-> type, what |-> what, mentions |-> mentions, cause |-> cause, hint |-> hint]

Err(type, what, mentions) == ErrFull(type, what, mentions, "", FALSE)

NoError == Err(None, None, {})

\* A DataFrame: the table it holds, its rows, and the strategy that built it.
DF(t, n, via) == [table |-> t, rows |-> n, via |-> via]

NoDF == DF(None, 0, None)

df_empty_never(df) == FALSE

df_empty(df) == df.rows = 0

Raise(e, left) == [kind |-> "raise", df |-> NoDF, error |-> e, created |-> left, left |-> left]

Return(df, created) == [kind |-> "df", df |-> df, error |-> NoError, created |-> created, left |-> 0]

----------------------------------------------------------------------------
(* Extraction strategies *)

\* `mdb-tables --version` exits 0 exactly when mdb-tools is installed.
_check_mdbtools(e) == e.mdbtools

\* mdb-tables -1: the file's table names, or the tool failing / timing out.
_list_tables_mdbtools(f, o) ==
    CASE ~f.exists \/ f.size = 0 \/ o.list = "fail" -> Raise(Err("RuntimeError", "Error listando tablas", {}), 0)
      [] o.list = "timeout" -> Raise(Err("TimeoutExpired", "mdb-tables", {}), 0)
      [] OTHER -> [kind |-> "ok", tables |-> f.tables]

\* mkstemp, then mdb-export: the temporary file exists from mkstemp on.
_export_table_mdbtools(f, t, o) ==
    CASE o.export = "fail" -> Raise(Err("RuntimeError", "Error exportando tabla", {}), 1)
      [] o.export = "timeout" -> Raise(Err("TimeoutExpired", "mdb-export", {}), 1)
      [] OTHER -> [kind |-> "ok", created |-> 1]

_try_mdbtools(f, t, e, o) ==
    IF ~_check_mdbtools(e)
    THEN Raise(Err("RuntimeError", "mdb-tools no esta instalado", {}), 0)
    ELSE LET l == _list_tables_mdbtools(f, o) IN
         IF l.kind = "raise" THEN l
         ELSE IF l.tables = <<>>
         THEN Raise(Err("ValueError", "No se encontraron tablas en el archivo", {}), 0)
         ELSE IF t = None
         THEN Raise(Err("ValueError", "No se especifico una tabla", Range(l.tables)), 0)
         ELSE IF t \notin Range(l.tables)
         THEN Raise(Err("ValueError", "Tabla no encontrada", Range(l.tables)), 0)
         ELSE LET x == _export_table_mdbtools(f, t, o) IN
              IF x.kind = "raise" THEN x
              ELSE IF o.parse = "fail"
              THEN Raise(Err("ParserError", "read_csv", {}), x.created)
              ELSE Return(DF(t, f.rows[t], "_try_mdbtools"), x.created)

\* pyodbc.connect succeeds: there is a driver, it can open the file, and it answers in time.
Connects(f, e, o) == e.driver /\ f.exists /\ f.size > 0 /\ o.connect = "ok"

_try_pyodbc(f, t, e, o) ==
    IF ~e.pyodbc
    THEN Raise(Err("ImportError", "No module named pyodbc", {}), 0)
    ELSE IF ~Connects(f, e, o)
    THEN Raise(Err("pyodbc.Error", "connect", {}), 0)
    ELSE IF t = None /\ f.tables = <<>>
    THEN Raise(Err("ValueError", "No se encontraron tablas", {}), 0)
    ELSE LET name == IF t = None THEN f.tables[1] ELSE t IN
         IF name \notin Range(f.tables)
         THEN Raise(Err("DatabaseError", "read_sql", {}), 0)
         ELSE Return(DF(name, f.rows[name], "_try_pyodbc"), 0)

_try_sqlalchemy(f, t, e, o) ==
    IF ~e.sqlalchemy
    THEN Raise(Err("ImportError", "No module named sqlalchemy", {}), 0)
    ELSE IF ~f.exists \/ f.size = 0 \/ o.engine = "fail"
    THEN Raise(Err("SQLAlchemyError", "create_engine", {}), 0)
    ELSE IF t = None /\ f.tables = <<>>
    THEN Raise(Err("ValueError", "No se encontraron tablas", {}), 0)
    ELSE LET name == IF t = None THEN f.tables[1] ELSE t IN
         IF name \notin Range(f.tables)
         THEN Raise(Err("ValueError", "read_sql_table", {}), 0)
         ELSE Return(DF(name, f.rows[name], "_try_sqlalchemy"), 0)

_try_manual_conversion(f, t, e, o) ==
    Raise(ErrFull("ValueError", "No se pudo leer automaticamente", {}, "", TRUE), 0)

\* The methods list with pyodbc moved to the front.
methods_pyodbc_first == <<"_try_pyodbc", "_try_mdbtools", "_try_sqlalchemy", "_try_manual_conversion">>

\* The methods list of read, in order of preference.
methods == <<"_try_mdbtools", "_try_pyodbc", "_try_sqlalchemy", "_try_manual_conversion">>

\* method(file_path, table_name)
Invoke(m, f, t, e, o) ==
    CASE m = "_try_mdbtools" -> _try_mdbtools(f, t, e, o)
      [] m = "_try_pyodbc" -> _try_pyodbc(f, t, e, o)
      [] m = "_try_sqlalchemy" -> _try_sqlalchemy(f, t, e, o)
      [] OTHER -> _try_manual_conversion(f, t, e, o)

----------------------------------------------------------------------------
(* RobustAccessReader.read *)

NoResult == [kind |-> "none", df |-> NoDF, error |-> NoError]

\* read without its size check.
read_validate_unsized(f) ==
    IF ~f.exists THEN Err("FileNotFoundError", "El archivo no existe", {})
    ELSE NoError

\* The checks read makes before it builds the methods list.
read_validate(f) ==
    IF ~f.exists THEN Err("FileNotFoundError", "El archivo no existe", {})
    ELSE IF f.size = 0 THEN Err("ValueError", "El archivo esta vacio", {})
    ELSE NoError

\* The loop body without `not df.empty`: any DataFrame ends the read.
read_body_accepts_empty(out, last) ==
    IF out.kind = "df"
    THEN [next |-> "return", last_error |-> last, logged |-> <<>>, df |-> out.df]
    ELSE [next |-> "continue", last_error |-> out.error, logged |-> <<out.error>>, df |-> NoDF]

\* The loop body without its return: the loop goes on after a success.
read_body_no_return(out, last) ==
    IF out.kind = "raise"
    THEN [next |-> "continue", last_error |-> out.error, logged |-> <<out.error>>, df |-> NoDF]
    ELSE [next |-> "continue", last_error |-> last, logged |-> <<>>, df |-> NoDF]

\* The loop body keeping the first error instead of the last.
read_body_first_error(out, last) ==
    IF out.kind = "df" /\ ~df_empty(out.df)
    THEN [next |-> "return", last_error |-> last, logged |-> <<>>, df |-> out.df]
    ELSE IF out.kind = "raise"
    THEN [next |-> "continue", last_error |-> IF last = NoError THEN out.error ELSE last, logged |-> <<out.error>>, df |-> NoDF]
    ELSE [next |-> "continue", last_error |-> last, logged |-> <<>>, df |-> NoDF]

\* One pass of the for loop over methods, given what method(...) did.
read_body(out, last) ==
    IF out.kind = "df" /\ ~df_empty(out.df)
    THEN [next |-> "return", last_error |-> last, logged |-> <<>>, df |-> out.df]
    ELSE IF out.kind = "raise"
    THEN [next |-> "continue", last_error |-> out.error, logged |-> <<out.error>>, df |-> NoDF]
    ELSE [next |-> "continue", last_error |-> last, logged |-> <<>>, df |-> NoDF]

\* The ValueError raised after the loop; its message embeds str(last_error).
read_all_failed(last) ==
    ErrFull("ValueError", "No se pudo leer el archivo Access", last.mentions, last.what, TRUE)

Outcome(out) == IF out.kind = "raise" THEN "raised" ELSE IF df_empty(out.df) THEN "empty" ELSE "df"

\* read(file_path, table_name) up to the for loop.
read(t, o) ==
    /\ pc = "idle"
    /\ reads < MaxReads
    /\ reads' = reads + 1
    /\ table_name' = t
    /\ tools' = o
    /\ attempts' = <<>>
    /\ failure_log' = <<>>
    /\ last_error' = NoError
    /\ idx' = 1
    /\ LET v == read_validate(file) IN
       IF v # NoError
       THEN /\ pc' = "done"
            /\ result' = [kind |-> "raise", df |-> NoDF, error |-> v]
       ELSE /\ pc' = "loop"
            /\ result' = NoResult
    /\ UNCHANGED <<env, file, tempFiles, mkstemps, supportVars, listingVars, converterVars>>

\* One iteration: invoke methods[idx] and act on what it did.
read_loop ==
    /\ pc = "loop"
    /\ idx <= Len(methods)
    /\ LET m == methods[idx]
           out == Invoke(m, file, table_name, env, tools)
           b == read_body(out, last_error)
       IN /\ attempts' = Append(attempts, [method |-> m, outcome |-> Outcome(out), df |-> out.df, error |-> out.error])
          /\ mkstemps' = mkstemps + out.created
          /\ tempFiles' = IF out.left = 1 THEN tempFiles \cup {mkstemps + 1} ELSE tempFiles
          /\ last_error' = b.last_error
          /\ failure_log' = failure_log \o [i \in 1..Len(b.logged) |-> [method |-> m, error |-> b.logged[i]]]
          /\ IF b.next = "return"
             THEN /\ pc' = "done"
                  /\ result' = [kind |-> "return", df |-> b.df, error |-> NoError]
                  /\ idx' = idx
             ELSE /\ pc' = "loop"
                  /\ result' = result
                  /\ idx' = idx + 1
    /\ UNCHANGED <<env, file, tools, table_name, reads, supportVars, listingVars, converterVars>>

\* The loop ran out of methods.
read_exhausted ==
    /\ pc = "loop"
    /\ idx > Len(methods)
    /\ pc' = "done"
    /\ result' = [kind |-> "raise", df |-> NoDF, error |-> read_all_failed(last_error)]
    /\ UNCHANGED <<env, file, tools, table_name, idx, last_error, attempts, failure_log, tempFiles, mkstemps, reads, supportVars, listingVars, converterVars>>

\* The caller has the result; the call's locals are gone.
read_done ==
    /\ pc = "done"
    /\ pc' = "idle"
    /\ tools' = AllOk
    /\ table_name' = None
    /\ idx' = 1
    /\ last_error' = NoError
    /\ attempts' = <<>>
    /\ failure_log' = <<>>
    /\ result' = NoResult
    /\ UNCHANGED <<env, file, tempFiles, mkstemps, reads, supportVars, listingVars, converterVars>>

----------------------------------------------------------------------------
(* RobustAccessReader.check_access_support *)

_get_supported_methods(e) ==
    (IF _check_mdbtools(e) THEN <<"mdb-tools">> ELSE <<>>)
    \o (IF e.pyodbc /\ e.system = "windows" THEN <<"pyodbc">> ELSE <<>>)
    \o (IF e.sqlalchemy THEN <<"sqlalchemy">> ELSE <<>>)

_get_error_message(supported_methods, e) ==
    IF supported_methods # <<>> THEN ""
    ELSE IF e.system = "darwin" THEN "macOS no tiene soporte nativo para Access"
    ELSE IF e.system = "windows" THEN "No se encontraron drivers ODBC para Access"
    ELSE "No se encontraron metodos para leer archivos Access"

_check_drivers(e) == IF e.pyodbc /\ e.driver THEN <<"Microsoft Access Driver (*.mdb, *.accdb)">> ELSE <<>>

\* The report and the instance fields after the call, from the fields before it.
check_access_support(checked, supported, e) ==
    IF checked
    THEN [checked |-> checked, supported |-> supported,
          report |-> [supported |-> supported, system |-> e.system,
                      drivers_available |-> _check_drivers(e),
                      supported_methods |-> _get_supported_methods(e)]]
    ELSE LET sm == _get_supported_methods(e) IN
         [checked |-> TRUE, supported |-> Len(sm) > 0,
          report |-> [supported |-> Len(sm) > 0, system |-> e.system,
                      drivers_available |-> _check_drivers(e),
                      supported_methods |-> sm,
                      error_message |-> _get_error_message(sm, e)]]

CheckAccessSupport ==
    /\ Len(reports) < MaxChecks
    /\ LET c == check_access_support(access_support_checked, access_supported, env) IN
       /\ access_support_checked' = c.checked
       /\ access_supported' = c.supported
       /\ reports' = Append(reports, c.report)
    /\ UNCHANGED <<env, file, readVars, listingVars, converterVars>>

----------------------------------------------------------------------------
(* RobustAccessReader.get_table_names *)

\* The pyodbc block of get_table_names: import, connect, cursor.tables.
_list_tables_pyodbc(f, e, o) ==
    IF ~e.pyodbc THEN Raise(Err("ImportError", "No module named pyodbc", {}), 0)
    ELSE IF ~Connects(f, e, o) THEN Raise(Err("pyodbc.Error", "connect", {}), 0)
    ELSE [kind |-> "ok", tables |-> f.tables]

Listing(mechanism, l) == [mechanism |-> mechanism, outcome |-> IF l.kind = "raise" THEN "failed" ELSE IF l.tables = <<>> THEN "empty" ELSE "listed", tables |-> IF l.kind = "raise" THEN <<>> ELSE l.tables]

\* get_table_names with the mdb-tools listing outside its try block.
get_table_names_unguarded(f, e, o) ==
    LET m == _list_tables_mdbtools(f, o)
        p == _list_tables_pyodbc(f, e, o)
        first == IF _check_mdbtools(e) THEN <<Listing("mdb-tools", m)>> ELSE <<>>
    IN IF _check_mdbtools(e) /\ m.kind = "raise"
       THEN [kind |-> "raise", tables |-> <<>>, error |-> m.error, consulted |-> first]
       ELSE IF _check_mdbtools(e) /\ m.tables # <<>>
       THEN [kind |-> "return", tables |-> m.tables, error |-> NoError, consulted |-> first]
       ELSE IF p.kind = "ok" /\ p.tables # <<>>
       THEN [kind |-> "return", tables |-> p.tables, error |-> NoError, consulted |-> Append(first, Listing("pyodbc", p))]
       ELSE [kind |-> "return", tables |-> <<>>, error |-> NoError, consulted |-> Append(first, Listing("pyodbc", p))]

\* What get_table_names returns, and the mechanisms it consulted.
get_table_names(f, e, o) ==
    LET m == _list_tables_mdbtools(f, o)
        p == _list_tables_pyodbc(f, e, o)
        first == IF _check_mdbtools(e) THEN <<Listing("mdb-tools", m)>> ELSE <<>>
    IN IF _check_mdbtools(e) /\ m.kind = "ok" /\ m.tables # <<>>
       THEN [kind |-> "return", tables |-> m.tables, error |-> NoError, consulted |-> first]
       ELSE IF p.kind = "ok" /\ p.tables # <<>>
       THEN [kind |-> "return", tables |-> p.tables, error |-> NoError, consulted |-> Append(first, Listing("pyodbc", p))]
       ELSE [kind |-> "return", tables |-> <<>>, error |-> NoError, consulted |-> Append(first, Listing("pyodbc", p))]

ListingOracles == {o \in Oracles : o.export = "ok" /\ o.parse = "ok" /\ o.engine = "ok"}

GetTableNames ==
    /\ listings < MaxListings
    /\ listings' = listings + 1
    /\ \E o \in ListingOracles :
       LET r == get_table_names(file, env, o) IN
       /\ tables_result' = [kind |-> r.kind, tables |-> r.tables, error |-> r.error]
       /\ listing_attempts' = r.consulted
    /\ UNCHANGED <<env, file, readVars, supportVars, converterVars>>

----------------------------------------------------------------------------
(* Specifications *)

\* The host a reader instance finds itself on.
HostInit ==
    /\ env \in Envs
    /\ file \in Files

\* A freshly constructed RobustAccessReader, no call made yet.
ReaderInit ==
    /\ access_support_checked = FALSE
    /\ access_supported = FALSE
    /\ reports = <<>>
    /\ pc = "idle"
    /\ tools = AllOk
    /\ table_name = None
    /\ idx = 1
    /\ last_error = NoError
    /\ attempts = <<>>
    /\ failure_log = <<>>
    /\ result = NoResult
    /\ tempFiles = {}
    /\ mkstemps = 0
    /\ reads = 0
    /\ tables_result = [kind |-> "none", tables |-> <<>>, error |-> NoError]
    /\ listing_attempts = <<>>
    /\ listings = 0

\* No table analysed by year yet.
YearIdle ==
    /\ year_rows = <<>>
    /\ year_result = [kind |-> "none"]
    /\ partitions = <<>>

\* No by-year conversion under way.
BatchIdle ==
    /\ input_file = [exists |-> TRUE, suffix |-> ".mdb"]
    /\ year_summary = [error |-> FALSE, tables |-> <<>>]
    /\ parallel = FALSE
    /\ max_workers = 0
    /\ batch_pc = "idle"
    /\ jobs = <<>>
    /\ tasks = <<>>
    /\ conversions_by_year = <<>>
    /\ disk = <<>>
    /\ batch_result = [kind |-> "none"]
    /\ mkdirs = 0
    /\ summary_calls = 0

\* No conversion requested of the converter.
ConverterIdle ==
    /\ naming_config = <<>>
    /\ output_format = "sql"
    /\ clock = 0
    /\ names = <<>>
    /\ BatchIdle
    /\ YearIdle

Init == HostInit /\ ReaderInit /\ ConverterIdle

Next ==
    \/ \E t \in TableNames \cup {None}, o \in ReadOracles : read(t, o)
    \/ read_loop
    \/ read_exhausted
    \/ read_done

\* A reader instance serving read calls.
Spec == Init /\ [][Next]_vars

NextSupport == CheckAccessSupport

\* A reader instance asked for its availability report, repeatedly, on one host.
SpecSupport == Init /\ [][NextSupport]_vars

NextTables == GetTableNames

\* A reader instance asked for the table names of a file.
SpecTables == Init /\ [][NextTables]_vars

----------------------------------------------------------------------------
(* Properties of read *)

\* The documented order of preference of the extraction strategies.
StrategyOrder == <<"_try_mdbtools", "_try_pyodbc", "_try_sqlalchemy", "_try_manual_conversion">>

\* What strategy number b returns or raises when called directly with this
\* call's file and table name, the tools behaving as they do during the call.
Direct(b) == Invoke(StrategyOrder[b], file, table_name, env, tools)

Failed(a) == a.outcome \in {"raised", "empty"}

\* C1: for a missing file read fails with the not-found error and for a
\* zero-byte file with the empty-file error; no strategy has been attempted,
\* no temporary file created, and the call is over at once (no retry).
C1_ValidationBeforeStrategies ==
    /\ (reads > 0 /\ pc # "idle" /\ ~file.exists) =>
          /\ pc = "done"
          /\ result.kind = "raise"
          /\ result.error.type = "FileNotFoundError"
          /\ attempts = <<>> /\ mkstemps = 0
    /\ (reads > 0 /\ pc # "idle" /\ file.exists /\ file.size = 0) =>
          /\ pc = "done"
          /\ result.kind = "raise"
          /\ result.error = Err("ValueError", "El archivo esta vacio", {})
          /\ attempts = <<>> /\ mkstemps = 0

C1_Witness ==
    /\ pc = "done" /\ file = EmptyFile /\ env.mdbtools /\ env.pyodbc
    /\ result.kind = "raise" /\ result.error.what = "El archivo esta vacio"

\* C2: read without a table name on a file with more than one table fails,
\* and the error the caller receives lists the available table names.
C2_AmbiguousTableListsNames ==
    (pc = "done" /\ table_name = None /\ Len(file.tables) > 1) =>
        /\ result.kind = "raise"
        /\ Range(file.tables) \subseteq result.error.mentions

\* C3: the strategies attempted by one read call are a prefix of mdb-tools,
\* pyodbc, SQLAlchemy, manual conversion (so each at most once, each only
\* after every earlier one); every attempt but the last raised or returned an
\* empty table, and an attempt that returned a non-empty table is the last:
\* the call is over and returned.
C3_FixedOrderAtMostOnce ==
    /\ Len(attempts) <= Len(StrategyOrder)
    /\ \A i \in 1..Len(attempts) :
          /\ attempts[i].method = StrategyOrder[i]
          /\ i < Len(attempts) => Failed(attempts[i])
          /\ attempts[i].outcome = "df" => (pc = "done" /\ result.kind = "return")
    /\ pc = "loop" => idx = Len(attempts) + 1

C3_Witness ==
    /\ pc = "done" /\ result.kind = "return"
    /\ Len(attempts) = 3
    /\ attempts[1].outcome = "raised" /\ attempts[2].outcome = "raised"
    /\ attempts[3].outcome = "df"

\* C4 as claimed: when the call is over, every attempt but that of the last
\* strategy that raised or returned an empty table has a recorded failure
\* reason and is followed by the attempt of the next strategy.
C4_FailureRecordedAndNextTried ==
    pc = "done" =>
        \A i \in 1..Len(attempts) :
            (Failed(attempts[i]) /\ i < Len(StrategyOrder)) =>
                /\ Len(attempts) > i
                /\ \E j \in 1..Len(failure_log) : failure_log[j].method = attempts[i].method

\* C4 as amended: every such attempt is followed by the attempt of the next
\* strategy; the failure reason is recorded exactly for the attempts that
\* raised (an empty table leaves no record).
C4_NextTriedRaiseRecorded ==
    pc = "done" =>
        /\ \A i \in 1..Len(attempts) :
              (Failed(attempts[i]) /\ i < Len(StrategyOrder)) =>
                  /\ Len(attempts) > i
                  /\ attempts[i + 1].method = StrategyOrder[i + 1]
        /\ failure_log = SelectSeq([i \in 1..Len(attempts) |-> [method |-> attempts[i].method, error |-> attempts[i].error]], LAMBDA r : r.error # NoError)

C4_Witness ==
    /\ pc = "done"
    /\ Len(attempts) = 4
    /\ attempts[1].outcome = "empty"
    /\ attempts[2].outcome = "raised" /\ attempts[2].error.type = "pyodbc.Error"
    /\ Len(failure_log) = 3

\* C5: if strategy B called directly returns a non-empty table T and every
\* strategy before B called directly raises or returns an empty table, read
\* returns T, B's own table.
C5_StrategyFallback ==
    pc = "done" =>
        \A b \in 1..Len(StrategyOrder) :
            (/\ Outcome(Direct(b)) = "df"
             /\ \A a \in 1..(b - 1) : Outcome(Direct(a)) # "df") =>
                /\ result.kind = "return"
                /\ result.df = Direct(b).df
                /\ result.df.via = StrategyOrder[b]

C5_Witness ==
    /\ pc = "done" /\ result.kind = "return"
    /\ Direct(1).kind = "raise" /\ Direct(1).error.type = "TimeoutExpired"
    /\ Outcome(Direct(2)) = "df"
    /\ result.df = Direct(2).df

AllFailed == Len(attempts) = Len(StrategyOrder) /\ \A i \in 1..Len(attempts) : Failed(attempts[i])

LastRaised == CHOOSE k \in 1..Len(attempts) : attempts[k].outcome = "raised" /\ \A j \in (k + 1)..Len(attempts) : attempts[j].outcome # "raised"

\* C6: when every strategy has failed, read raises one error that embeds the
\* error of the last strategy that raised and advises converting by hand.
C6_AggregateError ==
    (pc = "done" /\ AllFailed) =>
        /\ result.kind = "raise"
        /\ result.error.type = "ValueError"
        /\ result.error.what = "No se pudo leer el archivo Access"
        /\ result.error.hint
        /\ \E k \in 1..Len(attempts) : attempts[k].outcome = "raised"
        /\ result.error.cause = attempts[LastRaised].error.what
        /\ result.error.mentions = attempts[LastRaised].error.mentions

C6_Witness ==
    /\ pc = "done" /\ AllFailed
    /\ attempts[1].error.what = "No se especifico una tabla"
    /\ attempts[3].error.type = "SQLAlchemyError"
    /\ result.error.cause = "No se pudo leer automaticamente"

\* C28: a read that returns hands over a table with at least one row; when
\* no table of a readable file has a row, every strategy has been attempted
\* and counted as failed, and read ends with the aggregate error.
C28_NeverReturnsEmpty ==
    pc = "done" =>
        /\ result.kind = "return" => (result.df # NoDF /\ result.df.rows >= 1)
        /\ (file.exists /\ file.size > 0 /\ \A t \in Range(file.tables) : file.rows[t] = 0) =>
              /\ AllFailed
              /\ result.kind = "raise"
              /\ result.error.what = "No se pudo leer el archivo Access"

C28_Witness ==
    /\ pc = "done"
    /\ file.tables = <<"A">> /\ file.rows["A"] = 0
    /\ table_name = "A"
    /\ \E i \in 1..Len(attempts) : attempts[i].outcome = "empty"
    /\ result.kind = "raise"

\* C7: when a read call is over, no temporary export file exists.
C7_TempFilesDeleted ==
    pc = "done" => tempFiles = {}

----------------------------------------------------------------------------
(* Properties of check_access_support *)

\* C8: every report returned, first or later, has supported true exactly when
\* its list of usable strategies is non-empty, and carries a remediation
\* message that is non-empty exactly when that list is empty.
C8_ReportConsistent ==
    \A i \in 1..Len(reports) :
        /\ reports[i].supported = (reports[i].supported_methods # <<>>)
        /\ "error_message" \in DOMAIN reports[i]
        /\ (reports[i].error_message # "") = (reports[i].supported_methods = <<>>)

\* C9: on one instance and one host, every report after the first equals the
\* first: same fields, same supported flag, same strategy list, same message.
C9_CachedReportSame ==
    \A i \in 1..Len(reports) :
        /\ DOMAIN reports[i] = DOMAIN reports[1]
        /\ \A k \in DOMAIN reports[1] : reports[i][k] = reports[1][k]

----------------------------------------------------------------------------
(* Properties of get_table_names *)

\* C10: get_table_names returns and never raises; mdb-tools is consulted
\* first when installed, pyodbc only if mdb-tools is not installed, failed or
\* listed nothing; the list returned is that of the first mechanism that
\* listed a table, and is empty when none did.
C10_TableNamesNeverRaises ==
    listings > 0 =>
        /\ tables_result.kind = "return"
        /\ \A i \in 1..Len(listing_attempts) :
              /\ listing_attempts[i].mechanism = "mdb-tools" => (i = 1 /\ env.mdbtools)
              /\ listing_attempts[i].mechanism = "pyodbc" =>
                    \/ i = 1 /\ ~env.mdbtools
                    \/ i = 2 /\ listing_attempts[1].mechanism = "mdb-tools" /\ listing_attempts[1].outcome # "listed"
              /\ listing_attempts[i].outcome = "listed" =>
                    /\ i = Len(listing_attempts)
                    /\ tables_result.tables = listing_attempts[i].tables
                    /\ tables_result.tables # <<>>
        /\ (\A i \in 1..Len(listing_attempts) : listing_attempts[i].outcome # "listed") =>
              /\ tables_result.tables = <<>>
              /\ listing_attempts # <<>>
              /\ listing_attempts[Len(listing_attempts)].mechanism = "pyodbc"
        /\ env.mdbtools => listing_attempts[1].mechanism = "mdb-tools"

C10_Witness ==
    /\ listings > 0
    /\ Len(listing_attempts) = 2
    /\ listing_attempts[1].outcome = "failed"
    /\ listing_attempts[2].outcome = "listed"
    /\ tables_result.tables = <<"A", "B">>

----------------------------------------------------------------------------
(* Strings of the converter: a str is the sequence of its characters.  The *)
(* placeholder {year} and a file extension are each kept as one element.   *)

YEAR == "{year}"

UpperCase == {"A", "B", "C", "D", "E", "F", "G", "H", "I", "J", "K", "L", "M", "N", "O", "P", "Q", "R", "S", "T", "U", "V", "W", "X", "Y", "Z"}

LowerCase == {"a", "b", "c", "d", "e", "f", "g", "h", "i", "j", "k", "l", "m", "n", "o", "p", "q", "r", "s", "t", "u", "v", "w", "x", "y", "z"}

Digits == <<"0", "1", "2", "3", "4", "5", "6", "7", "8", "9">>

\* str.lower on one character (the letters the model's names use).
LowerOf == [S |-> "s", T |-> "t", B |-> "b", K |-> "k"]

lower_char(c) == IF c \in DOMAIN LowerOf THEN LowerOf[c] ELSE c

\* str.lower
lower(s) == [i \in 1..Len(s) |-> lower_char(s[i])]

\* str(year) for a non-negative int
RECURSIVE str(_)
str(n) == IF n < 10 THEN <<Digits[n + 1]>> ELSE str(n \div 10) \o <<Digits[(n % 10) + 1]>>

RECURSIVE replace_year(_, _)
\* s.replace('{year}', str(year))
replace_year(s, year) ==
    IF s = <<>> THEN <<>>
    ELSE (IF Head(s) = YEAR THEN str(year) ELSE <<Head(s)>>) \o replace_year(Tail(s), year)

\* s.replace(' ', '_')
replace_spaces(s) == [i \in 1..Len(s) |-> IF s[i] = " " THEN "_" ELSE s[i]]

\* The characters the pattern [^a-zA-Z0-9_-] does not match.
is_kept(c) == c \in UpperCase \cup LowerCase \cup Range(Digits) \cup {"_", "-"}

\* re.sub(r'[^a-zA-Z0-9_-]', '', s); the text {year}, left in place, loses its braces.
remove_special_chars(s) ==
    LET RECURSIVE sub(_)
        sub(r) == IF r = <<>> THEN <<>>
                  ELSE (IF Head(r) = YEAR THEN <<"y", "e", "a", "r">>
                        ELSE IF is_kept(Head(r)) THEN <<Head(r)>> ELSE <<>>) \o sub(Tail(r))
    IN sub(s)

\* datetime.now().strftime("_%Y%m%d_%H%M%S"): one text per second of the clock.
timestamp(now) == <<"_">> \o str(now)

\* dict.get(key, default)
get(d, key, default) == IF key \in DOMAIN d THEN d[key] ELSE default

----------------------------------------------------------------------------
(* FileConverter._generate_year_filename *)

\* The extension of the artifact.
extension(fmt) == IF fmt = "sqlite" THEN "db" ELSE fmt

\* The name built when `not naming_config` holds (None or an empty dict).
default_filename(table, year, fmt) == table \o <<"_">> \o str(year) \o <<".", extension(fmt)>>

with_case(table, config) == IF get(config, "lowercase_names", TRUE) THEN lower(table) ELSE table

with_prefix_underscore(base_name, year, config) ==
    LET prefix == get(config, "table_prefix", <<>>)
    IN IF prefix # <<>> THEN replace_year(prefix, year) \o base_name ELSE base_name \o <<"_">> \o str(year)

with_prefix_literal(base_name, year, config) ==
    LET prefix == get(config, "table_prefix", <<>>)
    IN IF prefix # <<>> THEN prefix \o base_name ELSE base_name \o <<"-">> \o str(year)

\* The prefix, its {year} replaced, or else the default "-{year}" ending.
with_prefix(base_name, year, config) ==
    LET prefix == get(config, "table_prefix", <<>>)
    IN IF prefix # <<>> THEN replace_year(prefix, year) \o base_name ELSE base_name \o <<"-">> \o str(year)

with_suffix(base_name, year, config) ==
    LET suffix == get(config, "table_suffix", <<>>)
    IN IF suffix # <<>> THEN base_name \o replace_year(suffix, year) ELSE base_name

with_timestamp_always(base_name, config, now) == base_name \o timestamp(now)

with_timestamp(base_name, config, now) ==
    IF get(config, "use_timestamp", FALSE) THEN base_name \o timestamp(now) ELSE base_name

clean_name(base_name, config) ==
    LET spaced == IF get(config, "replace_spaces", TRUE) THEN replace_spaces(base_name) ELSE base_name
    IN IF get(config, "remove_special_chars", TRUE) THEN remove_special_chars(spaced) ELSE spaced

\* `now` is what datetime.now() answers during the call.
_generate_year_filename(table, year, fmt, config, now) ==
    IF DOMAIN config = {} THEN default_filename(table, year, fmt)
    ELSE clean_name(with_timestamp(with_suffix(with_prefix(with_case(table, config), year, config), year, config), config, now), config)
           \o <<".", extension(fmt)>>

\* Inputs of the naming function.
Sales == <<"S", "a", "l", "e", "s">>

NamingTables == {Sales, <<"T", " ", "1">>}

NamingYears == {2020, 2021}

Formats == {"sql", "sqlite"}

HistYearPrefix == <<"h", "i", "s", "t", "-", YEAR, "-">>

Prefixes == {<<>>, HistYearPrefix, <<"B", "k", " ", ".">>}

Suffixes == {<<>>, <<"-", "v", YEAR>>}

\* The dict of Scenario E: {table_prefix: "hist-{year}-", lowercase_names: true}.
ScenarioE == [table_prefix |-> HistYearPrefix, lowercase_names |-> TRUE]

\* The dicts the web form builds carry all six keys; a caller may pass fewer, or none.
NamingConfigs ==
    [table_prefix : Prefixes, table_suffix : Suffixes, use_timestamp : BOOLEAN,
     lowercase_names : BOOLEAN, replace_spaces : BOOLEAN, remove_special_chars : BOOLEAN]
    \cup {<<>>, ScenarioE, [lowercase_names |-> FALSE], [table_prefix |-> <<"B", "k", " ", ".">>]}

\* One call of _generate_year_filename; it reads the clock and touches nothing else.
GenerateYearFilename(table, year) ==
    /\ Len(names) < MaxNameCalls
    /\ names' = Append(names, [table |-> table, year |-> year, at |-> clock,
                               name |-> _generate_year_filename(table, year, output_format, naming_config, clock)])
    /\ UNCHANGED <<env, file, readVars, supportVars, listingVars, naming_config, output_format, clock, batchVars, yearVars>>

\* A second passes.
Tick ==
    /\ clock < MaxClock
    /\ clock' = clock + 1
    /\ UNCHANGED <<env, file, readVars, supportVars, listingVars, naming_config, output_format, names, batchVars, yearVars>>

\* A host on which the converter runs.
AHost == [system |-> "linux", mdbtools |-> TRUE, pyodbc |-> FALSE, driver |-> FALSE, sqlalchemy |-> FALSE]

AFile == [exists |-> TRUE, size |-> 1, tables |-> <<"A">>, rows |-> [t \in {"A"} |-> 1]]

InitNaming ==
    /\ env = AHost
    /\ file = AFile
    /\ ReaderInit
    /\ naming_config \in NamingConfigs
    /\ output_format \in Formats
    /\ clock = 0
    /\ names = <<>>
    /\ BatchIdle
    /\ YearIdle

NextNaming ==
    \/ \E table \in NamingTables, year \in NamingYears : GenerateYearFilename(table, year)
    \/ Tick

\* Artifact names asked for under one naming configuration and format, over time.
SpecNaming == InitNaming /\ [][NextNaming]_vars

----------------------------------------------------------------------------
(* FileConverter.convert_access_by_year: values *)

T == <<"T">>

T_2010 == <<"T", "_", "2", "0", "1", "0">>

\* One entry of year_summary['tables']; the dict keeps its entries in order.
TableInfo(name, error, years) == [name |-> name, error |-> error, available_years |-> years]

\* The years a table holds: distinct integers in ascending order.
YearLists == {<<>>, <<2010>>, <<2010, 2011>>}

TableInfos(name, yearLists) ==
    {TableInfo(name, TRUE, <<>>)} \cup {TableInfo(name, FALSE, ys) : ys \in yearLists}

\* What get_year_summary answers: an error for the whole file, or the tables.
YearSummaries ==
    {[error |-> TRUE, tables |-> <<>>]}
    \cup {[error |-> FALSE, tables |-> ts] :
            ts \in {<<>>} \cup {<<a>> : a \in TableInfos(T, YearLists)}
                   \cup {<<a, b>> : a \in TableInfos(T, YearLists), b \in TableInfos(T_2010, {<<>>, <<2010>>})}}

InputFiles == {[exists |-> TRUE, suffix |-> ".mdb"], [exists |-> TRUE, suffix |-> ".xlsx"], [exists |-> FALSE, suffix |-> ".mdb"]}

\* The DataFrame read_by_year returns for a partition (rows 0: no row of that year).
Partitions == {[raises |-> FALSE, rows |-> r, columns |-> IF r = 0 THEN 0 ELSE 2] : r \in 0..2}

\* What one call of read_by_year does: it raises, or returns a partition.
ReadAnswers == {[raises |-> TRUE, rows |-> 0, columns |-> 0]} \cup Partitions

NoPartition == [raises |-> FALSE, rows |-> 0, columns |-> 0]

NoEntry == [status |-> "none"]

BatchNamingConfigs == {<<>>, ScenarioE, [table_prefix |-> <<"B", "k", " ", ".">>]}

ConversionError(what) == [kind |-> "raise", type |-> "ConversionError", what |-> what]

Min(a, b) == IF a < b THEN a ELSE b

workers_default_only == Min(4, IF CpuCount # 0 THEN CpuCount ELSE 2)

\* max_workers or min(4, os.cpu_count() or 2); 0 stands for "not given".
workers == IF max_workers # 0 THEN max_workers ELSE Min(4, IF CpuCount # 0 THEN CpuCount ELSE 2)

conv_key_table(table, year) == table

\* f"{table_name}_{year}"
conv_key(table, year) == table \o <<"_">> \o str(year)

RECURSIVE years_jobs(_, _)
years_jobs(table, years) ==
    IF years = <<>> THEN <<>> ELSE <<<<table, Head(years)>>>> \o years_jobs(table, Tail(years))

RECURSIVE jobs_of_tables_twice(_)
jobs_of_tables_twice(tables) ==
    IF tables = <<>> THEN <<>>
    ELSE LET info == Head(tables)
         IN (IF info.error \/ info.available_years = <<>> THEN <<>>
             ELSE years_jobs(info.name, info.available_years) \o years_jobs(info.name, info.available_years))
            \o jobs_of_tables_twice(Tail(tables))

RECURSIVE jobs_of_tables_until_error(_)
jobs_of_tables_until_error(tables) ==
    IF tables = <<>> THEN <<>>
    ELSE LET info == Head(tables)
         IN IF info.error THEN <<>>
            ELSE years_jobs(info.name, info.available_years) \o jobs_of_tables_until_error(Tail(tables))

RECURSIVE jobs_of_tables(_)
\* The list of (table, year) jobs: tables in error or without years are skipped.
jobs_of_tables(tables) ==
    IF tables = <<>> THEN <<>>
    ELSE LET info == Head(tables)
         IN (IF info.error \/ info.available_years = <<>> THEN <<>>
             ELSE years_jobs(info.name, info.available_years))
            \o jobs_of_tables(Tail(tables))

----------------------------------------------------------------------------
(* FileConverter.convert_access_by_year: the call *)

\* d[k] = v on a dict
Put(d, k, v) == [x \in DOMAIN d \cup {k} |-> IF x = k THEN v ELSE d[x]]

\* The checks made before any job exists; "ok" or the message of the exception.
preconditions(f, summary) ==
    IF ~f.exists THEN "El archivo no existe"
    ELSE IF f.suffix \notin {".mdb", ".accdb"} THEN "El archivo debe ser .mdb o .accdb"
    ELSE IF summary.error THEN "Error obteniendo resumen de anos"
    ELSE IF summary.tables = <<>> THEN "No se encontraron tablas en el archivo Access"
    ELSE "ok"

reached_analysis_always(f) == TRUE

\* Both checks of the input path passed: the output directory is created and
\* the file handed to get_year_summary.
reached_analysis(f) == f.exists /\ f.suffix \in {".mdb", ".accdb"}

partition_never_empty(df) == FALSE

\* df.empty
partition_empty(df) == df.rows = 0

\* The entry of a partition without rows.
no_data(table, year) ==
    [table |-> table, year |-> year, status |-> "error", error |-> "Sin datos", rows_converted |-> 0, columns |-> 0]

\* The entry built by `except Exception as e` from str(e).
failed(table, year, what) ==
    [table |-> table, year |-> year, status |-> "error", error |-> what, rows_converted |-> 0, columns |-> 0]

\* The entry of a written partition; size is what stat() reports for the artifact.
converted(table, year, output_file, df, size) ==
    [table |-> table, year |-> year, status |-> "success", output_file |-> output_file,
     rows_converted |-> df.rows, columns |-> df.columns, file_size_mb |-> size]

on_exception_unguarded(table, year, what) == [propagates |-> TRUE, entry |-> NoEntry]

\* An exception inside process_single_year: caught, and turned into the job's entry.
on_exception(table, year, what) == [propagates |-> FALSE, entry |-> failed(table, year, what)]

\* A job not yet picked up.  reads and writes count the calls of read_by_year
\* and of the writer made for the job, raised is the message of the exception
\* raised inside it.
Pending == [state |-> "pending", df |-> NoPartition, output_file |-> <<>>, wrote |-> FALSE, entry |-> NoEntry,
            collected |-> FALSE, reads |-> 0, writes |-> 0, raised |-> ""]

Terminal(task) == task.state \in {"success", "error"}

Running(task) == task.state \in {"reading", "writing"}

all_conversions(convs) == DOMAIN convs

\* The keys of the entries whose status is success.
successful_conversions(convs) == {k \in DOMAIN convs : convs[k].status = "success"}

RECURSIVE sum_of(_, _, _)
\* sum(conv.get(field, 0) for conv in ...)
sum_of(convs, keys, field) ==
    IF keys = {} THEN 0
    ELSE LET k == CHOOSE x \in keys : TRUE
         IN (IF field \in DOMAIN convs[k] THEN convs[k][field] ELSE 0) + sum_of(convs, keys \ {k}, field)

\* The three totals of the report.
totals(convs) ==
    LET ok == successful_conversions(convs)
    IN IF ok # {}
       THEN [total_rows_converted |-> sum_of(convs, ok, "rows_converted"),
             total_files_created |-> Cardinality(ok),
             total_size_mb |-> sum_of(convs, ok, "file_size_mb")]
       ELSE [total_rows_converted |-> 0, total_files_created |-> 0, total_size_mb |-> 0]

\* The dict convert_access_by_year returns.
report(summary, convs) ==
    [kind |-> "return", input_file |-> "input_path", output_directory |-> "output_dir",
     output_format |-> output_format, total_tables |-> Len(summary.tables),
     conversions_by_year |-> convs, summary |-> summary] @@ totals(convs)

readerVars == <<env, file, readVars, supportVars, listingVars>>

batchInputs == <<input_file, year_summary, parallel, max_workers, naming_config, output_format, clock, names>>

\* The call up to the job list: the fatal checks, then one job per (table, year).
ConvertAccessByYear ==
    /\ batch_pc = "idle"
    /\ LET analysed == reached_analysis(input_file)
       IN /\ mkdirs' = IF analysed THEN mkdirs + 1 ELSE mkdirs
          /\ summary_calls' = IF analysed THEN summary_calls + 1 ELSE summary_calls
    /\ LET check == preconditions(input_file, year_summary)
           js == jobs_of_tables(year_summary.tables)
       IN IF check # "ok"
          THEN /\ batch_pc' = "raised"
               /\ batch_result' = ConversionError(check)
               /\ UNCHANGED <<jobs, tasks>>
          ELSE /\ batch_pc' = "running"
               /\ jobs' = js
               /\ tasks' = [i \in 1..Len(js) |-> Pending]
               /\ UNCHANGED batch_result
    /\ UNCHANGED <<readerVars, yearVars, batchInputs, conversions_by_year, disk>>

\* Whether job i may be picked up now: by a free pool thread, in submission
\* order, or, without the pool, once every earlier job has been stored.
MayStart(i) ==
    /\ \A j \in 1..(i - 1) : tasks[j].state # "pending"
    /\ IF parallel
       THEN Cardinality({j \in 1..Len(tasks) : Running(tasks[j])}) < workers
       ELSE \A j \in 1..(i - 1) : tasks[j].collected

\* process_single_year is entered for job i.
JobStart(i) ==
    /\ batch_pc = "running"
    /\ tasks[i].state = "pending"
    /\ MayStart(i)
    /\ tasks' = [tasks EXCEPT ![i].state = "reading"]
    /\ UNCHANGED <<readerVars, yearVars, batchInputs, prepVars, batch_pc, jobs, conversions_by_year, disk, batch_result>>

\* The job's exception leaves process_single_year through future.result() and
\* the outer except turns it into the ConversionError of the whole call.
Propagate(i, what, counter) ==
    /\ tasks' = [tasks EXCEPT ![i].state = "error", ![i][counter] = @ + 1, ![i].raised = what]
    /\ batch_pc' = "raised"
    /\ batch_result' = ConversionError(what)

\* read_by_year answers for job i: it raises, or returns the partition.
JobRead(i, answer) ==
    /\ batch_pc = "running"
    /\ tasks[i].state = "reading"
    /\ LET table == jobs[i][1]
           year == jobs[i][2]
       IN IF answer.raises
          THEN LET caught == on_exception(table, year, "read_by_year failed")
               IN IF caught.propagates THEN Propagate(i, "read_by_year failed", "reads")
                  ELSE /\ tasks' = [tasks EXCEPT ![i].state = "error", ![i].entry = caught.entry, ![i].reads = @ + 1,
                                                   ![i].raised = "read_by_year failed"]
                       /\ UNCHANGED <<batch_pc, batch_result>>
          ELSE /\ UNCHANGED <<batch_pc, batch_result>>
               /\ IF partition_empty(answer)
                  THEN tasks' = [tasks EXCEPT ![i].state = "error", ![i].df = answer, ![i].entry = no_data(table, year),
                                              ![i].reads = @ + 1]
                  ELSE tasks' = [tasks EXCEPT ![i].state = "writing", ![i].df = answer, ![i].reads = @ + 1,
                                              ![i].output_file = _generate_year_filename(table, year, output_format, naming_config, clock)]
    /\ UNCHANGED <<readerVars, yearVars, batchInputs, prepVars, jobs, conversions_by_year, disk>>

\* _write_file for job i: the writer stores the artifact, or raises.
JobWrite(i, ok) ==
    /\ batch_pc = "running"
    /\ tasks[i].state = "writing" /\ ~tasks[i].wrote
    /\ LET table == jobs[i][1]
           year == jobs[i][2]
       IN IF ok
          THEN /\ disk' = Put(disk, tasks[i].output_file, tasks[i].df.rows)
               /\ tasks' = [tasks EXCEPT ![i].wrote = TRUE, ![i].writes = @ + 1]
               /\ UNCHANGED <<batch_pc, batch_result>>
          ELSE /\ UNCHANGED disk
               /\ LET caught == on_exception(table, year, "writer failed")
                  IN IF caught.propagates THEN Propagate(i, "writer failed", "writes")
                     ELSE /\ tasks' = [tasks EXCEPT ![i].state = "error", ![i].entry = caught.entry, ![i].writes = @ + 1,
                                                      ![i].raised = "writer failed"]
                          /\ UNCHANGED <<batch_pc, batch_result>>
    /\ UNCHANGED <<readerVars, yearVars, batchInputs, prepVars, jobs, conversions_by_year>>

\* output_file_path.stat() and the success entry of job i.
JobStat(i) ==
    /\ batch_pc = "running"
    /\ tasks[i].state = "writing" /\ tasks[i].wrote
    /\ tasks' = [tasks EXCEPT ![i].state = "success",
                              ![i].entry = converted(jobs[i][1], jobs[i][2], tasks[i].output_file, tasks[i].df,
                                                     disk[tasks[i].output_file])]
    /\ UNCHANGED <<readerVars, yearVars, batchInputs, prepVars, batch_pc, jobs, conversions_by_year, disk, batch_result>>

\* The coordinator stores the entry job i returned.
Collect(i) ==
    /\ batch_pc = "running"
    /\ Terminal(tasks[i]) /\ ~tasks[i].collected
    /\ conversions_by_year' = Put(conversions_by_year, conv_key(jobs[i][1], jobs[i][2]), tasks[i].entry)
    /\ tasks' = [tasks EXCEPT ![i].collected = TRUE]
    /\ UNCHANGED <<readerVars, yearVars, batchInputs, prepVars, batch_pc, jobs, disk, batch_result>>

BatchReturn_early ==
    /\ batch_pc = "running"
    /\ \A i \in 1..Len(tasks) : Terminal(tasks[i])
    /\ batch_pc' = "returned"
    /\ batch_result' = report(year_summary, conversions_by_year)
    /\ UNCHANGED <<readerVars, yearVars, batchInputs, prepVars, jobs, tasks, conversions_by_year, disk>>

\* Every job stored: the totals are computed and the report returned.
BatchReturn ==
    /\ batch_pc = "running"
    /\ \A i \in 1..Len(tasks) : tasks[i].collected
    /\ batch_pc' = "returned"
    /\ batch_result' = report(year_summary, conversions_by_year)
    /\ UNCHANGED <<readerVars, yearVars, batchInputs, prepVars, jobs, tasks, conversions_by_year, disk>>

InitBatch ==
    /\ env = AHost
    /\ file = AFile
    /\ ReaderInit
    /\ naming_config \in BatchNamingConfigs
    /\ output_format = "sql"
    /\ clock = 0
    /\ names = <<>>
    /\ input_file \in InputFiles
    /\ year_summary \in YearSummaries
    /\ parallel \in BOOLEAN
    /\ max_workers \in (IF parallel THEN {0, 1} ELSE {0})
    /\ batch_pc = "idle"
    /\ jobs = <<>>
    /\ tasks = <<>>
    /\ conversions_by_year = <<>>
    /\ disk = <<>>
    /\ batch_result = [kind |-> "none"]
    /\ mkdirs = 0
    /\ summary_calls = 0
    /\ YearIdle

NextBatch ==
    \/ ConvertAccessByYear
    \/ \E i \in 1..Len(tasks) : JobStart(i)
    \/ \E i \in 1..Len(tasks), answer \in ReadAnswers : JobRead(i, answer)
    \/ \E i \in 1..Len(tasks), ok \in BOOLEAN : JobWrite(i, ok)
    \/ \E i \in 1..Len(tasks) : JobStat(i)
    \/ \E i \in 1..Len(tasks) : Collect(i)
    \/ BatchReturn

\* One call of convert_access_by_year.
SpecBatch == InitBatch /\ [][NextBatch]_vars

----------------------------------------------------------------------------
(* Properties of convert_access_by_year *)

Returned == batch_pc = "returned"

Report == batch_result.conversions_by_year

Key(i) == jobs[i][1] \o <<"_">> \o str(jobs[i][2])

\* The (table, year) pairs the year summary lists.
SummaryPairs ==
    {<<year_summary.tables[k].name, year_summary.tables[k].available_years[m]>> :
        <<k, m>> \in {km \in (1..Len(year_summary.tables)) \X (1..2) :
                        km[2] <= Len(year_summary.tables[km[1]].available_years)}}

\* C11: the report holds exactly one entry per (table, year) pair of the year
\* summary, each under its own key and describing its own pair: none is
\* dropped, none overwritten.
C11_OneEntryPerPair ==
    Returned =>
        /\ Cardinality(DOMAIN Report) = Cardinality(SummaryPairs)
        /\ \A p \in SummaryPairs :
              LET k == p[1] \o <<"_">> \o str(p[2])
              IN k \in DOMAIN Report /\ Report[k].table = p[1] /\ Report[k].year = p[2]

C11_Witness ==
    /\ Returned /\ parallel
    /\ Cardinality(SummaryPairs) = 3
    /\ Cardinality(DOMAIN Report) = 3

ScenarioD ==
    /\ year_summary.tables = <<TableInfo(T, FALSE, <<2010, 2011>>)>>
    /\ Len(tasks) = 2
    /\ tasks[1].state = "success"
    /\ tasks[2].raised = "writer failed"

C13_EmptyPartition ==
    \A i \in 1..Len(tasks) :
        (tasks[i].reads = 1 /\ tasks[i].raised = "" /\ tasks[i].df.rows = 0) =>
            /\ tasks[i].state = "error"
            /\ tasks[i].entry.status = "error" /\ tasks[i].entry.error = "Sin datos"
            /\ tasks[i].entry.rows_converted = 0
            /\ tasks[i].writes = 0 /\ ~tasks[i].wrote
            /\ Returned => Report[Key(i)] = tasks[i].entry

C13_Witness ==
    /\ Returned
    /\ \E i \in 1..Len(tasks) :
          /\ tasks[i].reads = 1 /\ tasks[i].raised = "" /\ tasks[i].df.rows = 0
          /\ Report[Key(i)].error = "Sin datos"
          /\ disk = <<>>

Succeeded == {i \in 1..Len(tasks) : tasks[i].state = "success"}

RECURSIVE Total(_, _)
\* The sum of f[i] over the jobs in S.
Total(f, S) == IF S = {} THEN 0 ELSE LET i == CHOOSE x \in S : TRUE IN f[i] + Total(f, S \ {i})

\* C14: in the returned report total_files_created is the number of jobs that
\* ended in success, total_rows_converted the sum of their rows and
\* total_size_mb the sum of their reported sizes; all three are 0 when no job
\* succeeded.
C14_TotalsOfSuccesses ==
    Returned =>
        /\ batch_result.total_files_created = Cardinality(Succeeded)
        /\ batch_result.total_rows_converted = Total([i \in Succeeded |-> tasks[i].df.rows], Succeeded)
        /\ batch_result.total_size_mb = Total([i \in Succeeded |-> tasks[i].entry.file_size_mb], Succeeded)
        /\ Succeeded = {} =>
              /\ batch_result.total_files_created = 0
              /\ batch_result.total_rows_converted = 0
              /\ batch_result.total_size_mb = 0

C14_Witness ==
    /\ Returned
    /\ Cardinality(Succeeded) = 2
    /\ Len(tasks) = 3
    /\ batch_result.total_files_created = 2
    /\ batch_result.total_rows_converted = 3

\* What the sequential loop stores for job i when the reader and the writer
\* behave for it as they did in this run: stat() then follows the job's own
\* write at once.
SequentialEntry(i) ==
    IF tasks[i].raised # "" THEN failed(jobs[i][1], jobs[i][2], tasks[i].raised)
    ELSE IF tasks[i].df.rows = 0 THEN no_data(jobs[i][1], jobs[i][2])
    ELSE converted(jobs[i][1], jobs[i][2], tasks[i].output_file, tasks[i].df, tasks[i].df.rows)

SequentialReport ==
    report(year_summary, [k \in {Key(i) : i \in 1..Len(jobs)} |->
                             SequentialEntry(CHOOSE i \in 1..Len(jobs) : Key(i) = k)])

\* C15: a parallel run returns the report the sequential run returns for the
\* same input (same keys, statuses, row and column counts, and totals),
\* whatever the pool size and the interleaving.
C15_ParallelAsSequential ==
    (Returned /\ parallel) => batch_result = SequentialReport

\* The moves of one job: pending -> reading -> (writing -> success | error) | error.
JobMoves == {<<"pending", "reading">>, <<"reading", "writing">>, <<"reading", "error">>,
             <<"writing", "success">>, <<"writing", "error">>}

\* The calls of read_by_year, or of the writer, made for the pair of job i.
CallsFor(i, counter) ==
    Total([j \in 1..Len(tasks) |-> tasks[j][counter]], {j \in 1..Len(tasks) : jobs[j] = jobs[i]})

JobsSettled ==
    /\ \A i \in 1..Len(tasks) : CallsFor(i, "reads") <= 1 /\ CallsFor(i, "writes") <= 1
    /\ \A i \in 1..Len(tasks) : tasks[i].state \in {"pending", "reading"} => tasks[i].writes = 0
    /\ Returned => \A i \in 1..Len(tasks) : Terminal(tasks[i]) /\ tasks[i].reads = 1

JobStep ==
    \A i \in 1..Len(tasks) :
        \/ tasks'[i].state = tasks[i].state
        \/ <<tasks[i].state, tasks'[i].state>> \in JobMoves

\* C20: every job moves only along pending -> reading -> (writing -> success |
\* error) | error, never back; no (table, year) pair is read or written more
\* than once; and when the report is returned every job is in one terminal
\* state.
C20_JobStateMachine == [](JobsSettled) /\ [][JobStep]_vars

C20_Witness ==
    /\ Returned
    /\ \E i, j \in 1..Len(tasks) :
          /\ tasks[i].state = "success" /\ tasks[i].writes = 1
          /\ tasks[j].state = "error" /\ tasks[j].reads = 1 /\ tasks[j].writes = 1

\* The tables of the summary that carry no error annotation.
Analyzed == {k \in 1..Len(year_summary.tables) : ~year_summary.tables[k].error}

\* C21: once the job list is built it holds, once each, exactly the pairs
\* (table, year) with the table free of a summary error and the year in its
\* available_years; a table in error or without years adds no job, and
\* neither aborts the call: it raises only for a missing or wrongly named
\* file, a summary in error, or a summary without tables.
C21_JobList ==
    /\ batch_pc \in {"running", "returned"} =>
          /\ Range(jobs) = {<<year_summary.tables[k].name, y>> :
                              <<k, y>> \in {ky \in Analyzed \X {2010, 2011} :
                                              ky[2] \in Range(year_summary.tables[ky[1]].available_years)}}
          /\ \A i, j \in 1..Len(jobs) : jobs[i] = jobs[j] => i = j
    /\ batch_pc = "raised" =>
          \/ ~input_file.exists
          \/ input_file.suffix \notin {".mdb", ".accdb"}
          \/ year_summary.error
          \/ year_summary.tables = <<>>

C21_Witness ==
    /\ batch_pc = "returned"
    /\ year_summary.tables = <<TableInfo(T, TRUE, <<>>), TableInfo(T_2010, FALSE, <<2010>>)>>
    /\ jobs = <<<<T_2010, 2010>>>>
    /\ tasks[1].state = "success"

\* C25: every returned report has a "success" indicator and a
\* "files_created" list with one entry per artifact written.
C25_SuccessAndFilesCreated ==
    Returned =>
        /\ "success" \in DOMAIN batch_result
        /\ "files_created" \in DOMAIN batch_result
        /\ Len(batch_result["files_created"]) = Cardinality(Succeeded)

InFlight == {i \in 1..Len(tasks) : tasks[i].state \in {"reading", "writing"}}

\* C26: in a parallel run the jobs being read or written at one moment never
\* outnumber the pool: max_workers when given, else the smaller of 4 and the
\* number of processors; and no job starts before the year summary, asked
\* for once, is there.
C26_BoundedParallelism ==
    /\ parallel =>
          Cardinality(InFlight) <= (IF max_workers # 0 THEN max_workers ELSE IF CpuCount < 4 THEN CpuCount ELSE 4)
    /\ (\E i \in 1..Len(tasks) : tasks[i].state # "pending") => summary_calls = 1
    /\ summary_calls <= 1

C26_Witness ==
    /\ parallel /\ max_workers = 0
    /\ Len(tasks) = 3
    /\ Cardinality(InFlight) = 2
    /\ tasks[3].state = "pending"

Stored == {i \in 1..Len(tasks) : tasks[i].collected}

\* The shared dict holds the entries the coordinator has stored, each under
\* its job's key, and the returned report holds the entry of every job.
StoredByCoordinator ==
    /\ DOMAIN conversions_by_year = {Key(i) : i \in Stored}
    /\ \A i \in Stored : Terminal(tasks[i]) /\ conversions_by_year[Key(i)] = tasks[i].entry
    /\ Returned =>
          /\ Stored = 1..Len(tasks)
          /\ Report = conversions_by_year
          /\ batch_result.total_files_created = Cardinality(Succeeded)

\* A change of the shared dict is the coordinator storing the entry of one
\* finished job under a key not yet present, while no job moves.
StoreStep ==
    conversions_by_year' # conversions_by_year =>
        /\ \A j \in 1..Len(tasks) : tasks'[j].state = tasks[j].state /\ tasks'[j].entry = tasks[j].entry
        /\ \E i \in 1..Len(tasks) :
              /\ Terminal(tasks[i]) /\ ~tasks[i].collected /\ tasks'[i].collected
              /\ Key(i) \notin DOMAIN conversions_by_year
              /\ conversions_by_year' = Put(conversions_by_year, Key(i), tasks[i].entry)

\* C29: in a parallel run conversions_by_year is changed by the coordinator
\* alone, one finished job at a time and each key once, and the totals are
\* computed after every job has been stored: no entry is lost or counted in
\* part.
C29_CoordinatorOnlyWrites == [](parallel => StoredByCoordinator) /\ [][parallel => StoreStep]_vars

C29_Witness ==
    /\ parallel /\ batch_pc = "running"
    /\ Len(tasks) = 3
    /\ tasks[1].state = "writing" /\ tasks[1].wrote
    /\ Stored = {2}
    /\ DOMAIN conversions_by_year = {Key(2)}

BadPath == ~input_file.exists \/ input_file.suffix \notin {".mdb", ".accdb"}

Fatal == BadPath \/ year_summary.error \/ year_summary.tables = <<>>

\* C30: a missing input file, an extension other than .mdb or .accdb, a
\* top-level error of the year summary or a summary without tables end the
\* call with a ConversionError and no job processed; in the first two cases
\* neither the output directory has been created nor the file analysed.
C30_FatalPreconditions ==
    (batch_pc # "idle" /\ Fatal) =>
        /\ batch_pc = "raised"
        /\ batch_result.kind = "raise" /\ batch_result.type = "ConversionError"
        /\ jobs = <<>> /\ tasks = <<>>
        /\ DOMAIN conversions_by_year = {}
        /\ BadPath => (mkdirs = 0 /\ summary_calls = 0)

C30_Witness ==
    /\ batch_pc = "raised"
    /\ ~input_file.exists
    /\ year_summary.tables # <<>> /\ ~year_summary.error
    /\ batch_result.what = "El archivo no existe"
    /\ mkdirs = 0 /\ summary_calls = 0 /\ tasks = <<>>

----------------------------------------------------------------------------
(* convert_to_mysql_by_year: the by-year conversion straight into MySQL.   *)
(* jobs holds the (table, year) pairs the two loops go through, tasks one  *)
(* record per pair already gone through, disk the MySQL tables written;    *)
(* while the loops run batch_result holds the two counters.                *)

\* s.replace('-', '_').replace(' ', '_'), then re.sub(r'[^a-zA-Z0-9_]', '', s)
mysql_clean(s) ==
    LET RECURSIVE sub(_)
        sub(r) == IF r = <<>> THEN <<>>
                  ELSE (IF Head(r) \in {"-", " "} THEN <<"_">>
                        ELSE IF Head(r) = YEAR THEN <<"y", "e", "a", "r">>
                        ELSE IF Head(r) \in UpperCase \cup LowerCase \cup Range(Digits) \cup {"_"} THEN <<Head(r)>>
                        ELSE <<>>) \o sub(Tail(r))
    IN sub(s)

\* The name of the MySQL table of one partition.
mysql_table_name(table, year, config) ==
    LET prefix == get(config, "table_prefix", <<>>)
        suffix == get(config, "table_suffix", <<>>)
        table_base == IF get(config, "lowercase_names", TRUE) THEN lower(table) ELSE table
        named == IF prefix # <<>> THEN replace_year(prefix, year) \o table_base
                 ELSE table_base \o <<"_">> \o str(year)
    IN mysql_clean(IF DOMAIN config # {} /\ (prefix # <<>> \/ suffix # <<>>)
                   THEN (IF suffix # <<>> THEN named \o replace_year(suffix, year) ELSE named)
                   ELSE lower(table \o <<"_">> \o str(year)))

\* MySQLWriter.write: it never raises; ok is whether to_sql went through.
mysql_write(df, ok) ==
    IF df.rows = 0 THEN [success |-> FALSE, error |-> "DataFrame esta vacio"]
    ELSE IF ok THEN [success |-> TRUE, rows_written |-> df.rows, columns_written |-> df.columns]
    ELSE [success |-> FALSE, error |-> "to_sql failed"]

\* The entry of a partition written to MySQL.
inserted(table, year, mysql_table, write_result) ==
    [table |-> table, year |-> year, mysql_table |-> mysql_table, status |-> "success",
     rows_inserted |-> write_result.rows_written, columns |-> write_result.columns_written]

\* The entry of a partition the writer could not write.
insert_failed(table, year, mysql_table, write_result) ==
    [table |-> table, year |-> year, mysql_table |-> mysql_table, status |-> "error",
     error |-> write_result.error]

\* The entry built by the inner `except Exception as e`.
pair_failed(table, year, what) == [table |-> table, year |-> year, status |-> "error", error |-> what]

mysql_report(counters, convs) ==
    [kind |-> "return", input_file |-> "file_path", database_type |-> "mysql",
     total_tables_inserted |-> counters.total_tables_inserted,
     total_rows_inserted |-> counters.total_rows_inserted,
     total_files_created |-> counters.total_tables_inserted,
     total_rows_converted |-> counters.total_rows_inserted,
     conversions_by_year |-> convs]

\* The call up to the loops: the connection test and the year summary.
ConvertToMySQLByYear(connected) ==
    /\ batch_pc = "idle"
    /\ summary_calls' = IF connected THEN summary_calls + 1 ELSE summary_calls
    /\ IF ~connected
       THEN /\ batch_pc' = "raised"
            /\ batch_result' = [kind |-> "raise", type |-> "Exception", what |-> "No se pudo conectar a MySQL"]
            /\ UNCHANGED jobs
       ELSE IF year_summary.error
       THEN /\ batch_pc' = "raised"
            /\ batch_result' = [kind |-> "raise", type |-> "Exception", what |-> "Error obteniendo resumen de anos"]
            /\ UNCHANGED jobs
       ELSE /\ batch_pc' = "running"
            /\ batch_result' = [kind |-> "counters", total_tables_inserted |-> 0, total_rows_inserted |-> 0]
            /\ jobs' = jobs_of_tables(year_summary.tables)
    /\ UNCHANGED <<readerVars, yearVars, batchInputs, mkdirs, tasks, conversions_by_year, disk>>

\* One pass of the inner loop, for the next (table, year) pair: read_by_year
\* answers, and on a partition with rows the writer is called.
MySQLPair(answer, ok) ==
    /\ batch_pc = "running"
    /\ Len(tasks) < Len(jobs)
    /\ LET i == Len(tasks) + 1
           table == jobs[i][1]
           year == jobs[i][2]
           key == table \o <<"_">> \o str(year)
           mysql_table == mysql_table_name(table, year, naming_config)
           write_result == mysql_write(answer, ok)
       IN IF answer.raises
          THEN /\ conversions_by_year' = Put(conversions_by_year, key, pair_failed(table, year, "read_by_year failed"))
               /\ tasks' = Append(tasks, [state |-> "error", df |-> NoPartition, mysql_table |-> <<>>])
               /\ UNCHANGED <<disk, batch_result>>
          ELSE IF partition_empty(answer)
          THEN /\ tasks' = Append(tasks, [state |-> "skipped", df |-> answer, mysql_table |-> <<>>])
               /\ UNCHANGED <<conversions_by_year, disk, batch_result>>
          ELSE IF write_result.success
          THEN /\ batch_result' = [batch_result EXCEPT !.total_tables_inserted = @ + 1,
                                                       !.total_rows_inserted = @ + write_result.rows_written]
               /\ conversions_by_year' = Put(conversions_by_year, key, inserted(table, year, mysql_table, write_result))
               /\ disk' = Put(disk, mysql_table, answer.rows)
               /\ tasks' = Append(tasks, [state |-> "success", df |-> answer, mysql_table |-> mysql_table])
          ELSE /\ conversions_by_year' = Put(conversions_by_year, key, insert_failed(table, year, mysql_table, write_result))
               /\ tasks' = Append(tasks, [state |-> "error", df |-> answer, mysql_table |-> mysql_table])
               /\ UNCHANGED <<disk, batch_result>>
    /\ UNCHANGED <<readerVars, yearVars, batchInputs, prepVars, batch_pc, jobs>>

\* The loops are over: the connection is closed and the report returned.
MySQLReturn ==
    /\ batch_pc = "running"
    /\ Len(tasks) = Len(jobs)
    /\ batch_pc' = "returned"
    /\ batch_result' = mysql_report(batch_result, conversions_by_year)
    /\ UNCHANGED <<readerVars, yearVars, batchInputs, prepVars, jobs, tasks, conversions_by_year, disk>>

InitMySQL ==
    /\ env = AHost
    /\ file = AFile
    /\ ReaderInit
    /\ naming_config \in BatchNamingConfigs
    /\ output_format = "mysql"
    /\ clock = 0
    /\ names = <<>>
    /\ input_file = [exists |-> TRUE, suffix |-> ".mdb"]
    /\ year_summary \in YearSummaries
    /\ parallel = FALSE
    /\ max_workers = 0
    /\ batch_pc = "idle"
    /\ jobs = <<>>
    /\ tasks = <<>>
    /\ conversions_by_year = <<>>
    /\ disk = <<>>
    /\ batch_result = [kind |-> "none"]
    /\ mkdirs = 0
    /\ summary_calls = 0
    /\ YearIdle

NextMySQL ==
    \/ \E connected \in BOOLEAN : ConvertToMySQLByYear(connected)
    \/ \E answer \in ReadAnswers, ok \in BOOLEAN : MySQLPair(answer, ok)
    \/ MySQLReturn

\* One call of convert_to_mysql_by_year.
SpecMySQL == InitMySQL /\ [][NextMySQL]_vars

----------------------------------------------------------------------------
(* Properties of convert_to_mysql_by_year *)

\* C27: the report of convert_to_mysql_by_year holds one entry for every
\* (table, year) pair gone through, an error entry for a pair whose partition
\* is empty or whose write failed: no pair is left without an entry.
C27_MySQLOneEntryPerPair ==
    Returned =>
        \A i \in 1..Len(jobs) :
            /\ Key(i) \in DOMAIN Report
            /\ Report[Key(i)].table = jobs[i][1] /\ Report[Key(i)].year = jobs[i][2]
            /\ tasks[i].state # "success" => Report[Key(i)].status = "error"

----------------------------------------------------------------------------
(* RobustAccessReader.get_year_summary and read_by_year, for one table.    *)
(* A row is known by its position; only its year cell matters here.        *)

IntCell(v) == [kind |-> "int", value |-> v]

NullCell == [kind |-> "null", value |-> 0]

TextCell == [kind |-> "text", value |-> 0]

\* The cells of a year column: years, a number that is no year, a null and a
\* text that does not parse.
Cells == {IntCell(2008), IntCell(2009), IntCell(99), NullCell, TextCell}

YearTables == UNION {[1..n -> Cells] : n \in 0..MaxTableRows}

RequestedYears == {2008, 2009, 2010, 99}

\* read(file, table) as its callers see it: the rows, or the aggregate error;
\* a table without rows is an error too, since read accepts no empty result.
extract(rows, tools_ok) ==
    IF tools_ok /\ Len(rows) > 0 THEN [kind |-> "df", rows |-> rows] ELSE [kind |-> "raise", rows |-> <<>>]

is_year_any_int(cell) == cell.kind = "int"

\* The cell parses as a 4-digit year.
is_year(cell) == cell.kind = "int" /\ cell.value >= 1000 /\ cell.value <= 9999

RECURSIVE years_in_order(_)
years_in_order(rows) ==
    IF rows = <<>> THEN <<>>
    ELSE (IF is_year(Head(rows)) THEN <<Head(rows).value>> ELSE <<>>) \o years_in_order(Tail(rows))

RECURSIVE ascending(_)
\* sorted(S) for a set of integers
ascending(S) ==
    IF S = {} THEN <<>>
    ELSE LET m == CHOOSE x \in S : \A y \in S : x <= y
         IN <<m>> \o ascending(S \ {m})

available_years_unsorted(rows) == years_in_order(rows)

\* The distinct valid years of the column, in ascending order.
available_years(rows) == ascending(Range(years_in_order(rows)))

\* The summary of one table: its years and its row count, or the error annotation.
get_year_summary(rows, tools_ok) ==
    LET r == extract(rows, tools_ok)
    IN IF r.kind = "raise" THEN [kind |-> "error", available_years |-> <<>>, row_count |-> 0]
       ELSE [kind |-> "ok", available_years |-> available_years(r.rows), row_count |-> Len(r.rows)]

RECURSIVE matching_from_year(_, _, _)
matching_from_year(rows, year, k) ==
    IF k > Len(rows) THEN <<>>
    ELSE (IF rows[k].kind = "int" /\ rows[k].value >= year THEN <<k>> ELSE <<>>) \o matching_from_year(rows, year, k + 1)

RECURSIVE matching(_, _, _)
\* The positions from k on of the rows whose year cell is an integer equal to year.
matching(rows, year, k) ==
    IF k > Len(rows) THEN <<>>
    ELSE (IF rows[k].kind = "int" /\ rows[k].value = year THEN <<k>> ELSE <<>>) \o matching(rows, year, k + 1)

\* The rows of the table whose year is the requested one, or the error of the read.
read_by_year(rows, year, tools_ok) ==
    LET r == extract(rows, tools_ok)
    IN IF r.kind = "raise" THEN [kind |-> "raise", rows |-> <<>>, tools_ok |-> tools_ok]
       ELSE [kind |-> "df", rows |-> matching(r.rows, year, 1), tools_ok |-> tools_ok]

GetYearSummary(tools_ok) ==
    /\ year_result' = get_year_summary(year_rows, tools_ok)
    /\ UNCHANGED <<readerVars, namingVars, batchVars, year_rows, partitions>>

ReadByYear(year, tools_ok) ==
    /\ partitions' = Put(partitions, year, read_by_year(year_rows, year, tools_ok))
    /\ UNCHANGED <<readerVars, namingVars, batchVars, year_rows, year_result>>

InitYears ==
    /\ env = AHost
    /\ file = AFile
    /\ ReaderInit
    /\ naming_config = <<>>
    /\ output_format = "sql"
    /\ clock = 0
    /\ names = <<>>
    /\ BatchIdle
    /\ year_rows \in YearTables
    /\ year_result = [kind |-> "none"]
    /\ partitions = <<>>

NextYears ==
    \/ \E tools_ok \in BOOLEAN : GetYearSummary(tools_ok)
    \/ \E year \in RequestedYears, tools_ok \in BOOLEAN : ReadByYear(year, tools_ok)

\* One table summarised and read by year, any number of times.
SpecYears == InitYears /\ [][NextYears]_vars

----------------------------------------------------------------------------
(* Properties of get_year_summary and read_by_year *)

\* The rows of the table whose year cell holds the integer y.
RowsOfYear(y) == {k \in 1..Len(year_rows) : year_rows[k].kind = "int" /\ year_rows[k].value = y}

Increasing(q) == \A a, b \in 1..Len(q) : a < b => q[a] < q[b]

\* What C22 asks of one answer of read_by_year that came back as a table.
ExactPartition(y) ==
    /\ Range(partitions[y].rows) = RowsOfYear(y)
    /\ Increasing(partitions[y].rows)

\* C22 (as stated): read_by_year returns exactly the rows of the table whose
\* year equals the requested one, and when no row matches (the tools working)
\* it returns an empty table rather than raising.
C22_ExactRowsNeverRaises ==
    \A y \in DOMAIN partitions :
        /\ partitions[y].kind = "df" => ExactPartition(y)
        /\ (partitions[y].tools_ok /\ RowsOfYear(y) = {}) => (partitions[y].kind = "df" /\ partitions[y].rows = <<>>)

\* C22 (amended): whenever the full table is extracted (the tools work and the
\* table has at least one row) read_by_year returns exactly its rows of the
\* requested year, an empty table when none matches; when the extraction
\* fails, as it does for a table without rows, read_by_year raises.
C22_ExactRowsWhenExtracted ==
    \A y \in DOMAIN partitions :
        IF partitions[y].tools_ok /\ Len(year_rows) > 0
        THEN partitions[y].kind = "df" /\ ExactPartition(y)
        ELSE partitions[y].kind = "raise"

C22_Witness ==
    /\ year_rows = <<IntCell(2008), IntCell(2009), IntCell(2008)>>
    /\ DOMAIN partitions = {2008, 2010}
    /\ partitions[2008].rows = <<1, 3>>
    /\ partitions[2010].kind = "df" /\ partitions[2010].rows = <<>>

\* The rows whose year cell is a 4-digit integer year.
ValidRows == {k \in 1..Len(year_rows) : year_rows[k].kind = "int" /\ year_rows[k].value \in 1000..9999}

Listed == Range(year_result.available_years)

AllListedRead == \A y \in Listed : y \in DOMAIN partitions /\ partitions[y].kind = "df"

\* C23: once the table is summarised and the partition of every listed year
\* has been read, the partitions are pairwise disjoint and together hold
\* exactly the rows with a valid year: a row with a null, unparseable or
\* non-year value is in none of them.
C23_PartitionCompleteness ==
    (year_result.kind = "ok" /\ AllListedRead) =>
        /\ \A y, z \in Listed : y # z => Range(partitions[y].rows) \cap Range(partitions[z].rows) = {}
        /\ UNION {Range(partitions[y].rows) : y \in Listed} = ValidRows

C23_Witness ==
    /\ year_rows = <<IntCell(2009), NullCell, IntCell(2008)>>
    /\ year_result.kind = "ok"
    /\ AllListedRead
    /\ partitions[2008].rows = <<3>> /\ partitions[2009].rows = <<1>>

\* C24: for a table it could analyse get_year_summary lists the valid years
\* of the year column in ascending order, each once, and counts every row of
\* the table; rows tagged 2008, 2009, 2008 give [2008, 2009] and 3 rows.
C24_YearSummary ==
    year_result.kind = "ok" =>
        /\ Increasing(year_result.available_years)
        /\ Listed = {year_rows[k].value : k \in ValidRows}
        /\ year_result.row_count = Len(year_rows)
        /\ year_rows = <<IntCell(2008), IntCell(2009), IntCell(2008)>> =>
              (year_result.available_years = <<2008, 2009>> /\ year_result.row_count = 3)

C24_Witness ==
    /\ year_rows = <<IntCell(2008), IntCell(2009), IntCell(2008)>>
    /\ year_result.kind = "ok"
    /\ year_result.available_years = <<2008, 2009>>
    /\ year_result.row_count = 3

----------------------------------------------------------------------------
(* Properties of _generate_year_filename *)

Calls == 1..Len(names)

\* C16: under one naming configuration, two different (table, year) pairs
\* never get the same artifact file name.
C16_DistinctPairsDistinctNames ==
    \A i, j \in Calls :
        (<<names[i].table, names[i].year>> # <<names[j].table, names[j].year>>) => names[i].name # names[j].name

SameArguments(i, j) == names[i].table = names[j].table /\ names[i].year = names[j].year

Stamped == get(naming_config, "use_timestamp", FALSE)

\* C17 (as stated): two calls with identical (table, year, format, config),
\* made at any two moments, return the identical string.
C17_SameArgumentsSameName ==
    \A i, j \in Calls : SameArguments(i, j) => names[i].name = names[j].name

\* C17 (amended): two calls with identical arguments return the identical
\* string whenever use_timestamp is not set, or the calls fall in the same
\* second; the configuration and the format are left as they were.
C17_SameNameUnlessStamped ==
    \A i, j \in Calls :
        (SameArguments(i, j) /\ (~Stamped \/ names[i].at = names[j].at)) => names[i].name = names[j].name

C17_Witness ==
    /\ Len(names) = 2
    /\ SameArguments(1, 2)
    /\ names[1].at # names[2].at
    /\ DOMAIN naming_config # {}
    /\ ~Stamped
    /\ names[1].name = names[2].name

Prefix == get(naming_config, "table_prefix", <<>>)

Suffix == get(naming_config, "table_suffix", <<>>)

Cased(table) == IF get(naming_config, "lowercase_names", TRUE) THEN lower(table) ELSE table

\* The clean-up the configuration asks for: blanks become underscores, then
\* every character other than a letter, a digit, "_" and "-" is dropped.
Tidy(s) ==
    LET spaced == IF get(naming_config, "replace_spaces", TRUE)
                  THEN [k \in 1..Len(s) |-> IF s[k] = " " THEN "_" ELSE s[k]] ELSE s
    IN IF get(naming_config, "remove_special_chars", TRUE) THEN SelectSeq(spaced, is_kept) ELSE spaced

Ext == <<".", IF output_format = "sqlite" THEN "db" ELSE output_format>>

\* C18: with a prefix configured (and no timestamp), the name is the prefix
\* with {year} replaced by the year, then the table name (lower-cased when
\* lowercase_names is on), then the suffix, the whole cleaned up, plus the
\* extension; Scenario E yields "hist-2020-sales" plus the extension.
C18_PrefixedName ==
    \A i \in Calls :
        LET c == names[i]
        IN /\ (Prefix # <<>> /\ ~Stamped) =>
                  c.name = Tidy(replace_year(Prefix, c.year) \o Cased(c.table) \o replace_year(Suffix, c.year)) \o Ext
           /\ (naming_config = ScenarioE /\ c.table = Sales /\ c.year = 2020) =>
                  c.name = <<"h", "i", "s", "t", "-", "2", "0", "2", "0", "-", "s", "a", "l", "e", "s">> \o Ext
           /\ (DOMAIN naming_config = {"table_prefix"} /\ c.table = <<"T", " ", "1">>) =>
                  c.name = <<"B", "k", "_", "t", "_", "1">> \o Ext

C18_Witness ==
    /\ naming_config = ScenarioE
    /\ Len(names) = 1
    /\ names[1].table = Sales /\ names[1].year = 2020
    /\ names[1].name = <<"h", "i", "s", "t", "-", "2", "0", "2", "0", "-", "s", "a", "l", "e", "s", ".", "sql">>

\* The name C19 describes for a call: table name, hyphen, year, then the suffix
\* and the clean-up, plus the extension.
HyphenName(c) == Tidy(Cased(c.table) \o <<"-">> \o str(c.year) \o replace_year(Suffix, c.year)) \o Ext

\* C19 (as stated): whenever no prefix is configured, also when no naming
\* configuration is supplied at all, the name is "{table}-{year}" (before
\* suffix, clean-up and extension).
C19_DefaultHyphenAlways ==
    \A i \in Calls : (Prefix = <<>> /\ ~Stamped) => names[i].name = HyphenName(names[i])

\* C19 (amended): with a non-empty naming configuration that has no prefix the
\* name is "{table}-{year}" (before suffix, clean-up and extension); with no
\* naming configuration, or an empty one, it is "{table}_{year}" plus the
\* extension, the table name exactly as given.
C19_DefaultHyphenWhenConfigured ==
    \A i \in Calls :
        LET c == names[i]
        IN /\ (DOMAIN naming_config # {} /\ Prefix = <<>> /\ ~Stamped) => c.name = HyphenName(c)
           /\ DOMAIN naming_config = {} => c.name = c.table \o <<"_">> \o str(c.year) \o Ext

C19_Witness ==
    /\ DOMAIN naming_config = {"lowercase_names"}
    /\ Len(names) = 1
    /\ names[1].table = Sales /\ names[1].year = 2021
    /\ names[1].name = <<"S", "a", "l", "e", "s", "-", "2", "0", "2", "1", ".", output_format>>
    /\ output_format = "sql"

====
